---------------------------- MODULE Spec2Model ----------------------------
(***************************************************************************)
(* render_video.py: a module body that assembles one ffmpeg command line   *)
(* from string literals and hands it to subprocess.run.                    *)
(*                                                                         *)
(* Strings are sequences of one-character strings, so that os.path.join,   *)
(* the f-strings and the %0Nd placeholder are computed character by        *)
(* character.  The encoder (ffmpeg) and the file system are the            *)
(* environment of the script; their behaviour is taken from the            *)
(* filesystem contract of the specification and kept apart from the        *)
(* definitions that model the script.                                      *)
(***************************************************************************)
EXTENDS Integers, Sequences, FiniteSets, TLC

\* How many times in succession the script is run.
MaxRuns == 2
\* The largest number of frame files the renderer left in the directory.
MaxFrames == 2

---------------------------------------------------------------------------
\* String literals of the script (render_video.py:16-22).

ffmpeg == <<"f", "f", "m", "p", "e", "g">>
opt_y == <<"-", "y">>
opt_framerate == <<"-", "f", "r", "a", "m", "e", "r", "a", "t", "e">>
fps == <<"3", "0">>
opt_i == <<"-", "i">>
opt_cv == <<"-", "c", ":", "v">>
libx264 == <<"l", "i", "b", "x", "2", "6", "4">>
opt_pix_fmt == <<"-", "p", "i", "x", "_", "f", "m", "t">>
yuv420p == <<"y", "u", "v", "4", "2", "0", "p">>

sep == "/"

DigitChars == <<"0", "1", "2", "3", "4", "5", "6", "7", "8", "9">>

DigitChar(d) == DigitChars[d + 1]

\* The digit a character stands for, -1 when it is no digit.
DigitOf(c) ==
  IF \E d \in 0..9 : DigitChars[d + 1] = c
  THEN CHOOSE d \in 0..9 : DigitChars[d + 1] = c
  ELSE -1

StartsWith(s, p) == Len(s) >= Len(p) /\ SubSeq(s, 1, Len(p)) = p

EndsWith(s, p) == Len(s) >= Len(p) /\ SubSeq(s, Len(s) - Len(p) + 1, Len(s)) = p

---------------------------------------------------------------------------
\* The literal parameter sets.  The first is the one the script runs with
\* (lines 6 and 9); the second is the one its comments keep (lines 5, 7 and
\* the os.path.join(output_path, jsonname) of line 9).

\* Plain concatenation, a + b, in place of the join.
OsPathJoinConcat(a, b) == a \o b

\* posixpath.join(a, b), as line 19 and the comment of line 9 call it.
OsPathJoin(a, b) ==
  IF Len(b) > 0 /\ b[1] = sep THEN b
  ELSE IF Len(a) = 0 \/ a[Len(a)] = sep THEN a \o b
  ELSE a \o <<sep>> \o b

modelname_tunnel == <<"t", "u", "n", "n", "e", "l", "_", "o", "f", "_", "d", "o", "o", "m">>

frames_dir_tunnel ==
  <<".", "/", "o", "u", "t", "p", "u", "t", "s", "/", "h", "w", "4", "/",
    "t", "u", "n", "n", "e", "l", "_", "o", "f", "_", "d", "o", "o", "m", "/">>

jsonname == <<"t", "a", "p">>

output_path ==
  <<".", "/", "o", "u", "t", "p", "u", "t", "s", "/", "h", "w", "3", "/",
    "t", "a", "p", "_", "w", "a", "t", "e", "r", "/", "j", "s", "o", "n", "/">>

\* The padding widths of the placeholder: 3 in line 13, 4 in the file name
\* the comment of line 12 shows.
PadWidths == {3, 4}

Configs ==
  { [modelname |-> modelname_tunnel, frames_dir |-> frames_dir_tunnel, width |-> w] :
      w \in PadWidths }
  \cup
  { [modelname |-> jsonname, frames_dir |-> OsPathJoin(output_path, jsonname), width |-> w] :
      w \in PadWidths }

\* output_video = f"{modelname}.mp4"
output_video(c) == c.modelname \o <<".", "m", "p", "4">>

\* frame_pattern = f"{modelname}_%03d.png"
frame_pattern(c) ==
  c.modelname \o <<"_", "%", "0", DigitChar(c.width), "d", ".", "p", "n", "g">>

\* The list with the codec and the pixel format options exchanged.
BuildArgvReordered(c) ==
  << ffmpeg, opt_y, opt_framerate, fps, opt_i,
     OsPathJoin(c.frames_dir, frame_pattern(c)),
     opt_pix_fmt, yuv420p, opt_cv, libx264, output_video(c) >>

\* The list without the overwrite flag.
BuildArgvNoOverwrite(c) ==
  << ffmpeg, opt_framerate, fps, opt_i,
     OsPathJoin(c.frames_dir, frame_pattern(c)),
     opt_cv, libx264, opt_pix_fmt, yuv420p, output_video(c) >>

\* The list with -n, never overwrite, in place of -y.
BuildArgvKeepExisting(c) ==
  << ffmpeg, <<"-", "n">>, opt_framerate, fps, opt_i,
     OsPathJoin(c.frames_dir, frame_pattern(c)),
     opt_cv, libx264, opt_pix_fmt, yuv420p, output_video(c) >>

\* The list literal handed to subprocess.run.
BuildArgv(c) ==
  << ffmpeg, opt_y, opt_framerate, fps, opt_i,
     OsPathJoin(c.frames_dir, frame_pattern(c)),
     opt_cv, libx264, opt_pix_fmt, yuv420p, output_video(c) >>

---------------------------------------------------------------------------
\* The environment: the frame files on disk and the encoder process.

RECURSIVE Digits(_)
\* The decimal digits of a natural number.
Digits(i) == IF i < 10 THEN <<DigitChar(i)>> ELSE Digits(i \div 10) \o <<DigitChar(i % 10)>>

RECURSIVE ZeroFill(_, _)
ZeroFill(s, w) == IF Len(s) >= w THEN s ELSE ZeroFill(<<"0">> \o s, w)

\* printf's %0wd: at least w digits, filled with zeros on the left.
Pad(i, w) == ZeroFill(Digits(i), w)

\* The name of frame i as a renderer padding to width w writes it.
FrameName(m, w, i) == m \o <<"_">> \o Pad(i, w) \o <<".", "p", "n", "g">>

\* The path of a file of directory d.
FramePath(d, name) == IF Len(d) = 0 \/ d[Len(d)] = sep THEN d \o name ELSE d \o <<sep>> \o name

\* The value following option flag in an argument list, <<>> when absent.
ArgAfter(a, flag) ==
  IF \E k \in 1..(Len(a) - 1) : a[k] = flag
  THEN LET k == CHOOSE k \in 1..(Len(a) - 1) :
                  a[k] = flag /\ \A j \in 1..(k - 1) : a[j] # flag
       IN a[k + 1]
  ELSE <<>>

\* Whether flag is among the options (after the program name, before the
\* output path).
HasFlag(a, flag) == \E k \in 2..(Len(a) - 1) : a[k] = flag

\* A %0Nd placeholder starts at position k of s.
PlaceholderAt(s, k) ==
  /\ k + 3 <= Len(s)
  /\ s[k] = "%"
  /\ s[k + 1] = "0"
  /\ DigitOf(s[k + 2]) >= 1
  /\ s[k + 3] = "d"

Placeholders(s) == { k \in 1..Len(s) : PlaceholderAt(s, k) }

\* The file name the pattern s names for index i.
Substitute(s, i) ==
  IF Placeholders(s) = {} THEN s
  ELSE LET k == CHOOSE k \in Placeholders(s) : \A j \in Placeholders(s) : k <= j
       IN SubSeq(s, 1, k - 1) \o Pad(i, DigitOf(s[k + 2])) \o SubSeq(s, k + 4, Len(s))

\* The number of frames the pattern matches: the files of indices 0, 1, ...
\* up to the first missing one.
Matched(input, files) ==
  IF Placeholders(input) = {} THEN (IF input \in files THEN 1 ELSE 0)
  ELSE CHOOSE n \in 0..Cardinality(files) :
         /\ \A i \in 0..(n - 1) : Substitute(input, i) \in files
         /\ Substitute(input, n) \notin files

NoFile == [kind |-> "absent"]
OtherData == [kind |-> "other"]
PartialData == [kind |-> "partial"]

\* The video the encoder writes for n matched frames.
Video(a, n) ==
  [kind |-> "video", frames |-> n, rate |-> ArgAfter(a, opt_framerate),
   codec |-> ArgAfter(a, opt_cv), pix_fmt |-> ArgAfter(a, opt_pix_fmt)]

\* The exit status of an encoder left to run, and the output file after it.
EncoderExit(a, files, out) ==
  LET n == Matched(ArgAfter(a, opt_i), files) IN
  IF n = 0 THEN [rc |-> 1, out |-> out]
  ELSE IF out.data # NoFile /\ ~HasFlag(a, opt_y) THEN [rc |-> 1, out |-> out]
  ELSE [rc |-> 0, out |-> [data |-> Video(a, n), mtime |-> out.mtime + 1]]

\* The output file of an encoder killed while it ran: untouched, or cut short.
KilledOutputs(out) == { out, [data |-> PartialData, mtime |-> out.mtime + 1] }

---------------------------------------------------------------------------
\* The state.

VARIABLES
  cfg,          \* the literals of lines 6-13
  encoder,      \* "present", "missing" or "noexec": what the search path holds
  frameWidth,   \* the padding width of the frame files on disk
  frameCount,   \* how many frame files, of indices 0..frameCount-1
  output,       \* the file at output_video: [data, mtime]
  run,          \* which run of the script is the current one
  status,       \* per run: "notstarted", "running", "returned", "raised"
  argv,         \* per run: the argument list of the spawned process
  proc,         \* per run: "none", "running", "exited"
  returncode,   \* per run: <<>> or <<exit status>>
  spawns,       \* per run: how many processes were spawned
  exc,          \* per run: the exception that left the module body
  printed,      \* per run: whether the script itself wrote a message
  prior,        \* per run: the output file when the run began
  after         \* per run: the output file when the run ended

vars ==
  << cfg, encoder, frameWidth, frameCount, output, run, status, argv, proc,
     returncode, spawns, exc, printed, prior, after >>

Runs == 1..MaxRuns

Files ==
  { FramePath(cfg.frames_dir, FrameName(cfg.modelname, frameWidth, i)) :
      i \in 0..(frameCount - 1) }

Finished(r) == status[r] \in {"returned", "raised"}

Init ==
  /\ cfg \in Configs
  /\ encoder \in {"present", "missing", "noexec"}
  /\ frameWidth \in PadWidths
  /\ frameCount \in 0..MaxFrames
  /\ output \in { [data |-> NoFile, mtime |-> 0], [data |-> OtherData, mtime |-> 0] }
  /\ run = 1
  /\ status = [r \in Runs |-> "notstarted"]
  /\ argv = [r \in Runs |-> <<>>]
  /\ proc = [r \in Runs |-> "none"]
  /\ returncode = [r \in Runs |-> <<>>]
  /\ spawns = [r \in Runs |-> 0]
  /\ exc = [r \in Runs |-> "none"]
  /\ printed = [r \in Runs |-> FALSE]
  /\ prior = [r \in Runs |-> output]
  /\ after = [r \in Runs |-> output]

---------------------------------------------------------------------------
\* The script.  Lines 15-23 are one call of subprocess.run with neither
\* check=True, nor a timeout, nor a try block around it.

\* A handler that catches the exception, prints a message and goes on.
SwallowAndReport(e) == [status |-> "returned", exc |-> "none", printed |-> TRUE]

\* An exception of subprocess.run leaves the module body as it is: nothing
\* catches it, nothing is printed by the script.
Propagate(e) == [status |-> "raised", exc |-> e, printed |-> FALSE]

\* What Popen raises when the program cannot be executed.
LaunchError == IF encoder = "missing" THEN "FileNotFoundError" ELSE "PermissionError"

\* subprocess.run, the encoder on the search path: the process is spawned
\* with the argument list of lines 16-22.
SpawnOk ==
  /\ status[run] = "notstarted"
  /\ encoder = "present"
  /\ status' = [status EXCEPT ![run] = "running"]
  /\ argv' = [argv EXCEPT ![run] = BuildArgv(cfg)]
  /\ proc' = [proc EXCEPT ![run] = "running"]
  /\ spawns' = [spawns EXCEPT ![run] = @ + 1]
  /\ prior' = [prior EXCEPT ![run] = output]
  /\ UNCHANGED << cfg, encoder, frameWidth, frameCount, output, run, returncode,
                  exc, printed, after >>

\* subprocess.run, no encoder to execute: Popen raises.
SpawnFail ==
  /\ status[run] = "notstarted"
  /\ encoder # "present"
  /\ LET res == Propagate(LaunchError) IN
       /\ status' = [status EXCEPT ![run] = res.status]
       /\ exc' = [exc EXCEPT ![run] = res.exc]
       /\ printed' = [printed EXCEPT ![run] = res.printed]
  /\ prior' = [prior EXCEPT ![run] = output]
  /\ after' = [after EXCEPT ![run] = output]
  /\ UNCHANGED << cfg, encoder, frameWidth, frameCount, output, run, argv, proc,
                  returncode, spawns >>

\* The encoder runs to its own exit.
ProcExit ==
  /\ proc[run] = "running"
  /\ LET o == EncoderExit(argv[run], Files, output) IN
       /\ returncode' = [returncode EXCEPT ![run] = <<o.rc>>]
       /\ output' = o.out
  /\ proc' = [proc EXCEPT ![run] = "exited"]
  /\ UNCHANGED << cfg, encoder, frameWidth, frameCount, run, status, argv, spawns,
                  exc, printed, prior, after >>

\* The operating environment kills the encoder.
ProcKilled ==
  /\ proc[run] = "running"
  /\ returncode' = [returncode EXCEPT ![run] = <<-9>>]
  /\ output' \in KilledOutputs(output)
  /\ proc' = [proc EXCEPT ![run] = "exited"]
  /\ UNCHANGED << cfg, encoder, frameWidth, frameCount, run, status, argv, spawns,
                  exc, printed, prior, after >>

\* A wait that starts the call again after a non-zero exit status.
ReturnOrRetry ==
  /\ status[run] = "running"
  /\ proc[run] = "exited"
  /\ IF returncode[run] # <<0>> /\ spawns[run] < 2
     THEN /\ status' = [status EXCEPT ![run] = "notstarted"]
          /\ UNCHANGED after
     ELSE /\ status' = [status EXCEPT ![run] = "returned"]
          /\ after' = [after EXCEPT ![run] = output]
  /\ UNCHANGED << cfg, encoder, frameWidth, frameCount, output, run, argv, proc,
                  returncode, spawns, exc, printed, prior >>

\* A wait that gives up while the process may still be running.
ReturnOnTimeout ==
  /\ status[run] = "running"
  /\ status' = [status EXCEPT ![run] = "returned"]
  /\ after' = [after EXCEPT ![run] = output]
  /\ UNCHANGED << cfg, encoder, frameWidth, frameCount, output, run, argv, proc,
                  returncode, spawns, exc, printed, prior >>

\* The wait of subprocess.run ends once the process has exited; the
\* CompletedProcess it returns is dropped and the module body ends.
Return ==
  /\ status[run] = "running"
  /\ proc[run] = "exited"
  /\ status' = [status EXCEPT ![run] = "returned"]
  /\ after' = [after EXCEPT ![run] = output]
  /\ UNCHANGED << cfg, encoder, frameWidth, frameCount, output, run, argv, proc,
                  returncode, spawns, exc, printed, prior >>

\* The script is interrupted while it waits: subprocess.run kills the
\* process, waits for it and raises again.
Interrupt ==
  /\ status[run] = "running"
  /\ proc[run] = "running"
  /\ \E o \in KilledOutputs(output) :
       /\ output' = o
       /\ after' = [after EXCEPT ![run] = o]
  /\ proc' = [proc EXCEPT ![run] = "exited"]
  /\ returncode' = [returncode EXCEPT ![run] = <<-9>>]
  /\ LET res == Propagate("KeyboardInterrupt") IN
       /\ status' = [status EXCEPT ![run] = res.status]
       /\ exc' = [exc EXCEPT ![run] = res.exc]
       /\ printed' = [printed EXCEPT ![run] = res.printed]
  /\ UNCHANGED << cfg, encoder, frameWidth, frameCount, run, argv, spawns, prior >>

\* The script is run again, with the same literals and the same frames.
NextRun ==
  /\ Finished(run)
  /\ run < MaxRuns
  /\ run' = run + 1
  /\ UNCHANGED << cfg, encoder, frameWidth, frameCount, output, status, argv, proc,
                  returncode, spawns, exc, printed, prior, after >>

Next ==
  \/ SpawnOk
  \/ SpawnFail
  \/ ProcExit
  \/ ProcKilled
  \/ Return
  \/ Interrupt
  \/ NextRun

Spec == Init /\ [][Next]_vars

\* The interpreter goes on once the wait has ended.
FairSpec == Spec /\ WF_vars(Return)

---------------------------------------------------------------------------
\* The four parameters of the job the script runs, as the specification
\* names them.

source_directory == cfg.frames_dir

job_pattern == frame_pattern(cfg)

job_output == output_video(cfg)

\* The frames the job's pattern matches in the job's directory.
JobMatched == Matched(FramePath(source_directory, job_pattern), Files)

Spawned(r) == spawns[r] >= 1

Killed(r) == returncode[r] = <<-9>>

---------------------------------------------------------------------------
\* C1: the argument list of every spawned process is, in this order, the
\* encoder name, -y, -framerate, the frame rate, -i, the source directory
\* followed by the frame pattern, -c:v, libx264, -pix_fmt, yuv420p, the
\* output path: eleven arguments, of which only the frame rate, the input
\* and the output depend on the job.
C1_ArgvTemplate ==
  \A r \in Runs :
    Spawned(r) =>
      /\ Len(argv[r]) = 11
      /\ argv[r][1] = <<"f", "f", "m", "p", "e", "g">>
      /\ argv[r][2] = <<"-", "y">>
      /\ argv[r][3] = <<"-", "f", "r", "a", "m", "e", "r", "a", "t", "e">>
      /\ argv[r][4] = fps
      /\ argv[r][5] = <<"-", "i">>
      /\ argv[r][6] = FramePath(source_directory, job_pattern)
      /\ argv[r][7] = <<"-", "c", ":", "v">>
      /\ argv[r][8] = <<"l", "i", "b", "x", "2", "6", "4">>
      /\ argv[r][9] = <<"-", "p", "i", "x", "_", "f", "m", "t">>
      /\ argv[r][10] = <<"y", "u", "v", "4", "2", "0", "p">>
      /\ argv[r][11] = job_output

\* Every run of the script has spawned its process, for the literals the
\* comments keep.
C1_Witness ==
  /\ cfg.modelname = jsonname
  /\ \A r \in Runs : Spawned(r) /\ Len(argv[r]) = 11

\* C2: the -i argument is the source directory joined with the frame
\* pattern: it begins with the directory, its last path component is the
\* pattern, character for character, with one placeholder of the pattern's
\* width and the .png extension; the -framerate argument is the frame rate
\* and the last argument is the output path.
C2_ParameterSubstitution ==
  \A r \in Runs :
    Spawned(r) =>
      /\ Len(argv[r]) = 11
      /\ LET input == argv[r][6] IN
           /\ StartsWith(input, source_directory)
           /\ EndsWith(input, job_pattern)
           /\ Len(input) > Len(job_pattern)
           /\ input[Len(input) - Len(job_pattern)] = sep
           /\ Len(input) <= Len(source_directory) + 1 + Len(job_pattern)
           /\ Cardinality(Placeholders(input)) = 1
           /\ \A k \in Placeholders(input) :
                /\ DigitOf(input[k + 2]) = cfg.width
                /\ SubSeq(input, k + 4, Len(input)) = <<".", "p", "n", "g">>
      /\ argv[r][3] = opt_framerate
      /\ argv[r][4] = fps
      /\ argv[r][11] = job_output

\* A process was spawned for a directory written without a trailing
\* separator, with the width-4 placeholder.
C2_Witness ==
  /\ source_directory[Len(source_directory)] # sep
  /\ cfg.width = 4
  /\ \E r \in Runs : Spawned(r) /\ argv[r][6] = FramePath(source_directory, job_pattern)

\* C3: a finished job whose process was spawned has succeeded (the call
\* returned) exactly when the process exited with status zero; a non-zero
\* status reaches the caller as an error.
C3_ExitStatusDecides ==
  \A r \in Runs :
    (Finished(r) /\ Spawned(r)) =>
      ((status[r] = "returned") <=> (returncode[r] = <<0>>))

\* C4: with no encoder to execute, the finished run has raised the error
\* that names the cause, no process was spawned, and the script printed
\* nothing itself (in this or in any other case).
C4_MissingEncoderRaises ==
  \A r \in Runs :
    /\ ~printed[r]
    /\ (encoder # "present" /\ status[r] # "notstarted") =>
         /\ status[r] = "raised"
         /\ exc[r] = (IF encoder = "missing" THEN "FileNotFoundError" ELSE "PermissionError")
         /\ spawns[r] = 0
         /\ after[r] = prior[r]

\* The encoder is missing and the run has raised.
C4_Witness ==
  /\ encoder = "missing"
  /\ \E r \in Runs : status[r] = "raised" /\ exc[r] = "FileNotFoundError"

\* C5: a job never has more than one process, has exactly one as soon as
\* it has started with the encoder present, and once it has finished, in
\* success or in failure, its status, its process and its process count
\* never change again.
C5_OneProcessPerJob ==
  /\ [](\A r \in Runs :
          /\ spawns[r] <= 1
          /\ (encoder = "present" /\ status[r] # "notstarted") => spawns[r] = 1)
  /\ [][\A r \in Runs :
          Finished(r) =>
            /\ status'[r] = status[r]
            /\ spawns'[r] = spawns[r]
            /\ proc'[r] = proc[r]]_vars

\* A job whose process exited with a non-zero status has finished, and the
\* script has been started again after it.
C5_Witness ==
  \E r \in Runs :
    /\ Finished(r)
    /\ returncode[r] = <<1>>
    /\ spawns[r] = 1
    /\ run > r

\* C6: when no file of the source directory matches the frame pattern, the
\* finished job has raised an error, and the output file is not a new
\* video.
C6_ZeroFramesFail ==
  \A r \in Runs :
    (Finished(r) /\ JobMatched = 0) =>
      /\ status[r] = "raised"
      /\ after[r].data.kind # "video" \/ after[r] = prior[r]

\* C7: when the frame files on disk are padded to another width than the
\* placeholder, no frame is matched, the process is spawned all the same,
\* and the finished job has raised an error.
C7_WidthMismatchFails ==
  \A r \in Runs :
    (Finished(r) /\ encoder = "present" /\ frameCount > 0 /\ frameWidth # cfg.width) =>
      /\ JobMatched = 0
      /\ spawns[r] = 1
      /\ status[r] = "raised"

\* C8: every spawned process has the overwrite flag -y among its options,
\* and when an output file existed as the job began and the process exited
\* with status zero, the file is the video of the frames on disk, written
\* anew.
C8_Overwrite ==
  \A r \in Runs :
    /\ Spawned(r) => HasFlag(argv[r], opt_y)
    /\ (Finished(r) /\ prior[r].data # NoFile /\ returncode[r] = <<0>>) =>
         /\ after[r].data.kind = "video"
         /\ after[r].data.frames = frameCount
         /\ after[r].mtime = prior[r].mtime + 1

\* A job that began with another file at the output path has finished with
\* exit status zero.
C8_Witness ==
  \E r \in Runs :
    /\ Finished(r)
    /\ prior[r].data = OtherData
    /\ returncode[r] = <<0>>
    /\ after[r].data.kind = "video"

\* C9: two runs in succession, neither of them killed, spawn the same
\* argument list, end with the same exit status and the same outcome, and
\* leave the same contents in the output file.
C9_Idempotent ==
  \A r \in Runs :
    (/\ r + 1 \in Runs
     /\ Finished(r) /\ Finished(r + 1)
     /\ ~Killed(r) /\ ~Killed(r + 1)) =>
      /\ argv[r + 1] = argv[r]
      /\ returncode[r + 1] = returncode[r]
      /\ status[r + 1] = status[r]
      /\ after[r + 1].data = after[r].data

\* Two runs in succession have both exited with status zero, the first of
\* them having created the output file.
C9_Witness ==
  /\ Finished(1) /\ Finished(2)
  /\ prior[1].data = NoFile
  /\ returncode[1] = <<0>> /\ returncode[2] = <<0>>

\* C10: a job whose process was spawned is finished only when the process
\* has exited, and once the process has exited the job does finish.
C10_Synchronous ==
  /\ [](\A r \in Runs : (Finished(r) /\ Spawned(r)) => proc[r] = "exited")
  /\ \A r \in Runs : (proc[r] = "exited") ~> Finished(r)

\* The process has exited while the call has not returned yet.
C10_Witness ==
  \E r \in Runs : proc[r] = "exited" /\ status[r] = "running"

===========================================================================
